---- MODULE Spec2Model ----
(***************************************************************************)
(* Model of thoth-investigator's handling of one unresolved-package        *)
(* message: parse_unresolved_package_message and the learners it calls     *)
(* (investigate_unresolved_package.py, common.py).                         *)
(*                                                                         *)
(* One run of parse_unresolved_package_message is a sequence of steps, one *)
(* per callee of the handler.  The collaborators (knowledge graph, package *)
(* index, OpenShift scheduler) are inputs: every reply is drawn with \E at *)
(* the step that makes the call.  The calls a step makes are recorded in   *)
(* io, in the order the code makes them.                                   *)
(***************************************************************************)
EXTENDS Naturals, Sequences, FiniteSets

\* ------------------------------------------------------------------ bounds
\* Most (version, index) candidates examined in one run: the package index
\* client's version lists are short enough for the run to stay within it.
MaxProbes == 2
\* Most calls of the scheduler and of the graph in one run that raise or, for
\* schedule_all_solvers, return fewer job ids than there are solvers.  The
\* queries of the package index may fail any number of times.
MaxFaults == 1
\* Most package names in the "unresolved" list of an adviser document.
MaxUnresolved == 2

\* -------------------------------------------------------------- universes
None == "<None>"
PackageName == "foo"
\* Version objects published by the index client, and their str() form.
PublishedVersions == {1, 2}
str(v) == IF v = 1 THEN "1.0" ELSE IF v = 2 THEN "2.0" ELSE "0.0"
\* package_version values of the message: absent, empty, wildcard, pinned.
EventVersions == {None, "", "*", "1.0"}
VersionStrings == {str(v) : v \in PublishedVersions} \cup (EventVersions \ {None, "", "*"})
\* Index URLs: two that the graph may register, one it never registers.
IndexUrls == {"https://pypi.org/simple", "https://tensorflow.pypi.thoth-station.ninja/simple", "https://unregistered.example/simple"}
RegisteredChoices == {<<"https://pypi.org/simple">>, <<"https://pypi.org/simple", "https://tensorflow.pypi.thoth-station.ninja/simple">>}
\* Solver names known to OpenShift (get_solver_names, schedule_all_solvers).
SolverNames == <<"solver-a", "solver-b">>
EventSolvers == {None, "solver-a"}

Range(s) == {s[k] : k \in 1..Len(s)}
SeqsUpTo(S, n) == UNION {[1..m -> S] : m \in 0..n}
\* Version lists as the index client sorts them: latest first.
SortedVersionLists == {s \in SeqsUpTo(PublishedVersions, MaxProbes) : \A k \in 1..(Len(s) - 1) : s[k] >= s[k + 1]}
\* Python truthiness of an Optional[str].
Falsy(s) == s = None \/ s = ""

\* One collaborator call: operation, arguments ("-" where the operation takes
\* none), outcome ("ok", "raise", "true", "false") and the list it returned.
Call(op, ver, idx, slv, res, ret) == [op |-> op, pkg |-> PackageName, ver |-> ver, idx |-> idx, slv |-> slv, res |-> res, ret |-> ret]
\* Replies of the collaborators.
IndexReplies == [raised : {TRUE}, ret : {<<>>}] \cup [raised : {FALSE}, ret : SortedVersionLists]
AllSolversReplies == [raised : {TRUE}, ret : {<<>>}] \cup [raised : {FALSE}, ret : {[k \in 1..n |-> k] : n \in 0..Len(SolverNames)}]
NamesReplies == [raised : {TRUE}, ret : {<<>>}] \cup [raised : {FALSE}, ret : {SolverNames}]
CallReplies == [raised : BOOLEAN]
\* Facts the knowledge graph holds about one (package, version, index):
\* pv = python_package_version_exists, solved = the solver names for which
\* python_package_version_exists(solver_name=...) holds, si =
\* si_aggregated_python_package_version_exists.  The per-solver query is the
\* package-version query with one more filter, so solved is empty without pv.
Facts == {f \in [pv : BOOLEAN, solved : SUBSET Range(SolverNames), si : BOOLEAN] : f.solved # {} => f.pv}
NoFacts == [pv |-> FALSE, solved |-> {}, si |-> FALSE]
SchedulingOps == {"schedule_all_solvers", "schedule_solver", "schedule_revsolver", "schedule_security_indicator"}
Scheduling(calls) == {k \in 1..Len(calls) : calls[k].op \in SchedulingOps}
Calls(calls, op) == {k \in 1..Len(calls) : calls[k].op = op}
CountOp(calls, op) == Cardinality({k \in 1..Len(calls) : calls[k].op = op})
\* Calls that raised, or a schedule_all_solvers that returned fewer job ids
\* than there are solvers.
Anomalies(calls) == Cardinality({k \in 1..Len(calls) : (calls[k].res = "raise" /\ calls[k].op # "get_sorted_package_versions") \/ (calls[k].op = "schedule_all_solvers" /\ Len(calls[k].ret) # Len(SolverNames))})
\* The workflows the calls are known to have started: the ids
\* schedule_all_solvers returned, one for any other call of ops that returned.
Started(calls, ops) ==
    LET n[k \in 0..Len(calls)] ==
            IF k = 0 THEN 0
            ELSE n[k - 1] + (IF calls[k].op \notin ops \/ calls[k].res # "ok" THEN 0
                             ELSE IF calls[k].op = "schedule_all_solvers" THEN Len(calls[k].ret) ELSE 1)
    IN n[Len(calls)]
\* What a call asked for: the operation and its arguments.
Key(call) == [op |-> call.op, pkg |-> call.pkg, ver |-> call.ver, idx |-> call.idx, slv |-> call.slv]

\* ------------------------------------------------- the functions of the code
\* select_indexes that keeps the registered ones among the requested indexes.
select_indexes_filtering(registered, requested) ==
    IF ~requested.present \/ requested.urls = <<>>
    THEN registered
    ELSE IF \E k \in 1..Len(requested.urls) : requested.urls[k] \in Range(registered)
         THEN SelectSeq(requested.urls, LAMBDA u : u \in Range(registered))
         ELSE registered

\* Index selection of parse_unresolved_package_message.
select_indexes(registered, requested) ==
    IF ~requested.present \/ requested.urls = <<>>
    THEN registered
    ELSE IF \A k \in 1..Len(requested.urls) : requested.urls[k] \in Range(registered)
         THEN requested.urls
         ELSE registered

\* _check_package_version that validates a pinned version against the index.
_check_package_version_validating(version, index_url, reply) ==
    IF reply.raised
    THEN [versions |-> <<>>, calls |-> <<Call("get_sorted_package_versions", "-", index_url, "-", "raise", <<>>)>>]
    ELSE LET published == [k \in 1..Len(reply.ret) |-> str(reply.ret[k])]
         IN [versions |-> IF Falsy(version) \/ version = "*" THEN published ELSE SelectSeq(published, LAMBDA v : v = version),
             calls |-> <<Call("get_sorted_package_versions", "-", index_url, "-", "ok", reply.ret)>>]

\* _check_package_version: the versions to look at and the calls made.
_check_package_version(version, index_url, reply) ==
    IF Falsy(version) \/ version = "*"
    THEN IF reply.raised
         THEN [versions |-> <<>>, calls |-> <<Call("get_sorted_package_versions", "-", index_url, "-", "raise", <<>>)>>]
         ELSE [versions |-> [k \in 1..Len(reply.ret) |-> str(reply.ret[k])],
               calls |-> <<Call("get_sorted_package_versions", "-", index_url, "-", "ok", reply.ret)>>]
    ELSE [versions |-> <<version>>, calls |-> <<>>]

_schedule_solver(version, index_url, solver_name, reply) ==
    IF reply.raised
    THEN [count |-> 0, calls |-> <<Call("schedule_solver", version, index_url, solver_name, "raise", <<>>)>>]
    ELSE [count |-> 1, calls |-> <<Call("schedule_solver", version, index_url, solver_name, "ok", <<>>)>>]

\* _schedule_all_solvers that reports one scheduled workflow, as _schedule_solver does.
_schedule_all_solvers_flag(version, index_url, reply) ==
    IF reply.raised
    THEN [count |-> 0, calls |-> <<Call("schedule_all_solvers", version, index_url, "-", "raise", <<>>)>>]
    ELSE [count |-> 1, calls |-> <<Call("schedule_all_solvers", version, index_url, "-", "ok", reply.ret)>>]

_schedule_all_solvers(version, index_url, reply) ==
    IF reply.raised
    THEN [count |-> 0, calls |-> <<Call("schedule_all_solvers", version, index_url, "-", "raise", <<>>)>>]
    ELSE [count |-> Len(reply.ret), calls |-> <<Call("schedule_all_solvers", version, index_url, "-", "ok", reply.ret)>>]

\* The per-solver loop without the try/except of _schedule_solver: the first
\* openshift.schedule_solver that raises ends the loop.
RECURSIVE solver_loop_aborting(_, _, _, _, _)
solver_loop_aborting(solvers, version, index_url, solved, failed) ==
    IF solvers = <<>>
    THEN [count |-> 0, calls |-> <<>>]
    ELSE LET solver_name == Head(solvers)
             is_solved == solver_name \in solved
             probe == <<Call("python_package_version_exists", version, index_url, solver_name, IF is_solved THEN "true" ELSE "false", <<>>)>>
             one == IF is_solved
                    THEN [count |-> 0, calls |-> <<>>]
                    ELSE _schedule_solver(version, index_url, solver_name, [raised |-> solver_name \in failed])
             rest == IF ~is_solved /\ solver_name \in failed
                     THEN [count |-> 0, calls |-> <<>>]
                     ELSE solver_loop_aborting(Tail(solvers), version, index_url, solved, failed)
         IN [count |-> one.count + rest.count, calls |-> probe \o one.calls \o rest.calls]

\* The per-solver loop of learn_using_solver; failed is the set of solver
\* names for which openshift.schedule_solver raises.
RECURSIVE solver_loop(_, _, _, _, _)
solver_loop(solvers, version, index_url, solved, failed) ==
    IF solvers = <<>>
    THEN [count |-> 0, calls |-> <<>>]
    ELSE LET solver_name == Head(solvers)
             is_solved == solver_name \in solved
             probe == <<Call("python_package_version_exists", version, index_url, solver_name, IF is_solved THEN "true" ELSE "false", <<>>)>>
             one == IF is_solved
                    THEN [count |-> 0, calls |-> <<>>]
                    ELSE _schedule_solver(version, index_url, solver_name, [raised |-> solver_name \in failed])
             rest == solver_loop(Tail(solvers), version, index_url, solved, failed)
         IN [count |-> one.count + rest.count, calls |-> probe \o one.calls \o rest.calls]

\* learn_using_solver that looks at every solver, whatever solver the message names.
learn_using_solver_every_solver(present, version, index_url, solver_name, solved, all_reply, names_reply, failed) ==
    IF ~present
    THEN LET r == _schedule_all_solvers(version, index_url, all_reply)
         IN [raised |-> FALSE, count |-> r.count, calls |-> r.calls]
    ELSE IF names_reply.raised
    THEN [raised |-> TRUE, count |-> 0, calls |-> <<Call("get_solver_names", "-", "-", "-", "raise", <<>>)>>]
    ELSE LET r == solver_loop(names_reply.ret, version, index_url, solved, failed)
         IN [raised |-> FALSE, count |-> r.count, calls |-> <<Call("get_solver_names", "-", "-", "-", "ok", names_reply.ret)>> \o r.calls]

learn_using_solver(present, version, index_url, solver_name, solved, all_reply, names_reply, failed) ==
    IF ~present
    THEN LET r == _schedule_all_solvers(version, index_url, all_reply)
         IN [raised |-> FALSE, count |-> r.count, calls |-> r.calls]
    ELSE IF Falsy(solver_name) /\ names_reply.raised
    THEN [raised |-> TRUE, count |-> 0, calls |-> <<Call("get_solver_names", "-", "-", "-", "raise", <<>>)>>]
    ELSE LET solvers == IF Falsy(solver_name) THEN names_reply.ret ELSE <<solver_name>>
             asked == IF Falsy(solver_name) THEN <<Call("get_solver_names", "-", "-", "-", "ok", names_reply.ret)>> ELSE <<>>
             r == solver_loop(solvers, version, index_url, solved, failed)
         IN [raised |-> FALSE, count |-> r.count, calls |-> asked \o r.calls]

_schedule_revsolver(version, reply) ==
    IF reply.raised
    THEN [count |-> 0, calls |-> <<Call("schedule_revsolver", version, "-", "-", "raise", <<>>)>>]
    ELSE [count |-> 1, calls |-> <<Call("schedule_revsolver", version, "-", "-", "ok", <<>>)>>]

\* learn_using_revsolver without the is_present condition.
learn_using_revsolver_unconditional(present, version, seen, reply) ==
    IF <<PackageName, version>> \notin Range(seen)
    THEN LET r == _schedule_revsolver(version, reply)
         IN [count |-> r.count, seen |-> Append(seen, <<PackageName, version>>), calls |-> r.calls]
    ELSE [count |-> 0, seen |-> seen, calls |-> <<>>]

\* learn_using_revsolver that looks for the package name alone in the list.
learn_using_revsolver_by_name(present, version, seen, reply) ==
    IF ~present /\ PackageName \notin {p[1] : p \in Range(seen)}
    THEN LET r == _schedule_revsolver(version, reply)
         IN [count |-> r.count, seen |-> Append(seen, <<PackageName, version>>), calls |-> r.calls]
    ELSE [count |-> 0, seen |-> seen, calls |-> <<>>]

\* learn_using_revsolver that does not look into revsolver_packages_seen.
learn_using_revsolver_not_deduplicating(present, version, seen, reply) ==
    IF ~present
    THEN LET r == _schedule_revsolver(version, reply)
         IN [count |-> r.count, seen |-> Append(seen, <<PackageName, version>>), calls |-> r.calls]
    ELSE [count |-> 0, seen |-> seen, calls |-> <<>>]

\* learn_using_revsolver that remembers a pair only when its workflow was scheduled.
learn_using_revsolver_remembering_success(present, version, seen, reply) ==
    IF ~present /\ <<PackageName, version>> \notin Range(seen)
    THEN LET r == _schedule_revsolver(version, reply)
         IN [count |-> r.count, seen |-> IF r.count = 1 THEN Append(seen, <<PackageName, version>>) ELSE seen, calls |-> r.calls]
    ELSE [count |-> 0, seen |-> seen, calls |-> <<>>]

learn_using_revsolver(present, version, seen, reply) ==
    IF ~present /\ <<PackageName, version>> \notin Range(seen)
    THEN LET r == _schedule_revsolver(version, reply)
         IN [count |-> r.count, seen |-> Append(seen, <<PackageName, version>>), calls |-> r.calls]
    ELSE [count |-> 0, seen |-> seen, calls |-> <<>>]

_schedule_security_indicator(version, index_url, reply) ==
    IF reply.raised
    THEN [count |-> 0, calls |-> <<Call("schedule_security_indicator", version, index_url, "-", "raise", <<>>)>>]
    ELSE [count |-> 1, calls |-> <<Call("schedule_security_indicator", version, index_url, "-", "ok", <<>>)>>]

\* learn_about_security that asks the graph whatever is_present says.
learn_about_security_always_asking(present, version, index_url, is_analyzed, reply) ==
    LET query == <<Call("si_aggregated_python_package_version_exists", version, index_url, "-", IF is_analyzed THEN "true" ELSE "false", <<>>)>>
    IN IF is_analyzed
       THEN [count |-> 0, calls |-> query]
       ELSE LET r == _schedule_security_indicator(version, index_url, reply)
            IN [count |-> r.count, calls |-> query \o r.calls]

\* learn_about_security that never asks the graph.
learn_about_security_never_asking(present, version, index_url, is_analyzed, reply) ==
    _schedule_security_indicator(version, index_url, reply)

learn_about_security(present, version, index_url, is_analyzed, reply) ==
    LET query == <<Call("si_aggregated_python_package_version_exists", version, index_url, "-", IF is_analyzed THEN "true" ELSE "false", <<>>)>>
    IN IF present /\ is_analyzed
       THEN [count |-> 0, calls |-> query]
       ELSE LET r == _schedule_security_indicator(version, index_url, reply)
            IN [count |-> r.count, calls |-> (IF present THEN query ELSE <<>>) \o r.calls]

\* The message (package_version, requested_indexes, solver), the indexes the
\* graph registers, the locals of parse_unresolved_package_message under their
\* names in the code (i and j are the positions of the two for loops, pc the
\* next statement, pc = "raised" an exception that left the handler) and the
\* metrics (emitted, success).  kg holds the facts of the graph about the
\* candidate at hand.  History of the run: io, the calls of the last step;
\* faults, the calls that failed so far; rev_attempts, the schedule_revsolver
\* calls per version; probes, the candidates examined; all_known and
\* none_known, whether every candidate examined was fully known, unknown;
\* jobs_ok, the workflows known to have started, per kind; and, in a traced
\* run, sched_keys, what the scheduling calls so far asked for, and
\* index_failed, whether a query of a package index raised.
VARIABLES
    package_version, requested_indexes, solver,
    registered_indexes,
    pc, indexes, i, versions, j,
    is_present, kg, revsolver_packages_seen,
    solver_wfs_scheduled, revsolver_wfs_scheduled, si_wfs_scheduled,
    total_solver_wfs_scheduled, total_revsolver_wfs_scheduled, total_si_wfs_scheduled,
    io, faults, emitted, success,
    rev_attempts, all_known, none_known, probes,
    jobs_ok, traced, sched_keys, index_failed

\* investigate_unresolved_package: the adviser document it is given
\* (document), its locals under their names in the code (n is the position of
\* its for loop, at the next statement) and how it ended (outcome).
VARIABLES document, unresolved_packages, packages_to_solve, n, at, outcome

investigation == <<document, unresolved_packages, packages_to_solve, n, at, outcome>>

\* Several invocations of parse_unresolved_package_message at once: the
\* message of each (messages), the locals of each under their names in the
\* code, with the calls it made, how many of them inside the learner it is
\* in (made), and the amounts it emitted (invocation), what
\* the graph, the package indexes and the scheduler answer, the same
\* throughout (world), and the scheduled_workflows counters (solver,
\* revsolver, security-indicator) and unresolved_package_success, which the
\* invocations share.
VARIABLES messages, invocation, world, scheduled_workflows, unresolved_package_success

metrics == <<scheduled_workflows, unresolved_package_success>>
concurrent == <<messages, invocation, world, metrics>>

dispatch == <<package_version, requested_indexes, solver, registered_indexes,
          pc, indexes, i, versions, j, is_present, kg, revsolver_packages_seen,
          solver_wfs_scheduled, revsolver_wfs_scheduled, si_wfs_scheduled,
          total_solver_wfs_scheduled, total_revsolver_wfs_scheduled, total_si_wfs_scheduled,
          io, faults, emitted, success, rev_attempts, all_known, none_known, probes,
          jobs_ok, traced, sched_keys, index_failed>>

vars == <<dispatch, investigation, concurrent>>

\* --------------------------------------------------------------- the message
\* index_url of the message: absent, or a list of index URLs.
Absent == [present |-> FALSE, urls |-> <<>>]
Requested(urls) == [present |-> TRUE, urls |-> urls]
RequestedChoices == {Absent} \cup {Requested(<<>>)} \cup {Requested(<<u>>) : u \in IndexUrls} \cup {Requested(<<u, w>>) : u \in IndexUrls, w \in IndexUrls}
\* The messages looked at: a pinned version with any index_url list, or any
\* package_version without an index_url list.
MessageShapes == ({"1.0"} \X RequestedChoices) \cup (EventVersions \X {Absent})

\* The solvers learn_using_solver looks at for a known package version.
BackendSet == IF Falsy(solver) THEN Range(SolverNames) ELSE {solver}
FullyKnown(f) == f.pv /\ f.si /\ BackendSet \subseteq f.solved

\* The state when parse_unresolved_package_message is entered; t says
\* whether the run keeps the history of sched_keys and index_failed.
Start(t) ==
    /\ \E m \in MessageShapes : package_version = m[1] /\ requested_indexes = m[2]
    /\ solver \in EventSolvers
    /\ registered_indexes \in RegisteredChoices
    /\ pc = "select"
    /\ indexes = <<>>
    /\ i = 0
    /\ versions = <<>>
    /\ j = 0
    /\ is_present = FALSE
    /\ kg = NoFacts
    /\ revsolver_packages_seen = <<>>
    /\ solver_wfs_scheduled = 0
    /\ revsolver_wfs_scheduled = 0
    /\ si_wfs_scheduled = 0
    /\ total_solver_wfs_scheduled = 0
    /\ total_revsolver_wfs_scheduled = 0
    /\ total_si_wfs_scheduled = 0
    /\ io = <<>>
    /\ faults = 0
    /\ emitted = <<>>
    /\ success = 0
    /\ rev_attempts = [v \in VersionStrings |-> 0]
    /\ all_known = TRUE
    /\ none_known = TRUE
    /\ probes = 0
    /\ jobs_ok = [solver |-> 0, revsolver |-> 0, security |-> 0]
    /\ traced = t
    /\ sched_keys = {}
    /\ index_failed = FALSE

\* The adviser documents investigate_unresolved_package may be given: the
\* file may be missing; "result.report" may be empty, or have no
\* "_ERROR_DETAILS", or have some with an "unresolved" list; the Pipfile of
\* "result.parameters.project.requirements" declares packages and
\* dev-packages; the runtime environment gives a solver or none.
ProjectPackages == {"foo", "bar"}
Reports == [details : {FALSE}, unresolved : {<<>>}] \cup [details : {TRUE}, unresolved : SeqsUpTo(ProjectPackages, MaxUnresolved)]
Documents == [exists : BOOLEAN, report : Reports, packages : SUBSET ProjectPackages, dev_packages : SUBSET ProjectPackages, solver : EventSolvers]
NoDocument == [exists |-> FALSE, report |-> [details |-> FALSE, unresolved |-> <<>>], packages |-> {}, dev_packages |-> {}, solver |-> None]
\* pipfile.packages.packages[name] and pipfile.dev_packages.packages[name].
PackagesEntry(name) == [name |-> name, develop |-> FALSE]
DevPackagesEntry(name) == [name |-> name, develop |-> TRUE]

\* investigate_unresolved_package not called, or about to be called with d.
InvestigationAt(d, where) ==
    /\ document = d
    /\ unresolved_packages = <<>>
    /\ packages_to_solve = <<>>
    /\ n = 0
    /\ at = where
    /\ outcome = "none"

\* No invocation but the one of the dispatch variables.
NoneConcurrent ==
    /\ messages = <<>>
    /\ invocation = <<>>
    /\ world = <<>>
    /\ scheduled_workflows = <<0, 0, 0>>
    /\ unresolved_package_success = 0

Init == Start(FALSE) /\ InvestigationAt(NoDocument, "idle") /\ NoneConcurrent
InitTraced == Start(TRUE) /\ InvestigationAt(NoDocument, "idle") /\ NoneConcurrent

event == <<package_version, requested_indexes, solver, registered_indexes>>
totals == <<total_solver_wfs_scheduled, total_revsolver_wfs_scheduled, total_si_wfs_scheduled>>
iteration == <<solver_wfs_scheduled, revsolver_wfs_scheduled, si_wfs_scheduled>>
probed == <<is_present, kg, all_known, none_known, probes>>
sink == <<emitted, success>>

\* Bookkeeping of the calls a step made.
Record(calls) ==
    /\ faults + Anomalies(calls) <= MaxFaults
    /\ faults' = faults + Anomalies(calls)
    /\ io' = calls
    /\ rev_attempts' = [v \in VersionStrings |-> rev_attempts[v] + Cardinality({k \in 1..Len(calls) : calls[k].op = "schedule_revsolver" /\ calls[k].ver = v})]
    /\ jobs_ok' = [solver |-> jobs_ok.solver + Started(calls, {"schedule_all_solvers", "schedule_solver"}),
                   revsolver |-> jobs_ok.revsolver + Started(calls, {"schedule_revsolver"}),
                   security |-> jobs_ok.security + Started(calls, {"schedule_security_indicator"})]
    /\ traced' = traced
    /\ sched_keys' = IF traced THEN sched_keys \cup {Key(calls[k]) : k \in Scheduling(calls)} ELSE sched_keys
    /\ index_failed' = (index_failed \/ (traced /\ \E k \in 1..Len(calls) : calls[k].op = "get_sorted_package_versions" /\ calls[k].res = "raise"))
    /\ UNCHANGED <<investigation, concurrent>>

\* for index_url in indexes: the next index, or the metrics after the last.
NextIndex ==
    /\ i' = i + 1
    /\ pc' = IF i + 1 <= Len(indexes) THEN "check_version" ELSE "emit"

\* Lines 105-127: read the message, fetch the registered indexes, select.
SelectIndexes ==
    /\ pc = "select"
    /\ indexes' = select_indexes(registered_indexes, requested_indexes)
    /\ i' = 1
    /\ pc' = IF Len(indexes') >= 1 THEN "check_version" ELSE "emit"
    /\ Record(<<Call("get_python_package_index_urls_all", "-", "-", "-", "ok", <<>>)>>)
    /\ UNCHANGED <<event, versions, j, probed, revsolver_packages_seen, iteration, totals, sink>>

\* Lines 131-133: versions = _check_package_version(...).
CheckPackageVersion ==
    /\ pc = "check_version"
    /\ \E reply \in IndexReplies :
          LET r == _check_package_version(package_version, indexes[i], reply)
          IN /\ probes + Len(r.versions) <= MaxProbes
             /\ Record(r.calls)
             /\ versions' = r.versions
    /\ pc' = "versions_loop"
    /\ UNCHANGED <<event, indexes, i, j, probed, revsolver_packages_seen, iteration, totals, sink>>

\* Lines 135-138: a new revsolver_packages_seen, then the loop over versions.
VersionsLoop ==
    /\ pc = "versions_loop"
    /\ revsolver_packages_seen' = <<>>
    /\ Record(<<>>)
    /\ IF versions = <<>>
       THEN NextIndex /\ j' = j
       ELSE j' = 1 /\ pc' = "probe" /\ i' = i
    /\ UNCHANGED <<event, indexes, versions, probed, iteration, totals, sink>>

\* Lines 141-143: is_present = graph.python_package_version_exists(...).
ProbeExists ==
    /\ pc = "probe"
    /\ \E f \in Facts :
          /\ kg' = f
          /\ is_present' = f.pv
          /\ all_known' = (all_known /\ FullyKnown(f))
          /\ none_known' = (none_known /\ f = NoFacts)
          /\ probes' = probes + 1
          /\ Record(<<Call("python_package_version_exists", versions[j], indexes[i], "-", IF f.pv THEN "true" ELSE "false", <<>>)>>)
    /\ pc' = "solver"
    /\ UNCHANGED <<event, indexes, i, versions, j, revsolver_packages_seen, iteration, totals, sink>>

\* Lines 147-155: solver_wfs_scheduled = learn_using_solver(...); an error of
\* openshift.get_solver_names leaves the handler.
LearnUsingSolver ==
    /\ pc = "solver"
    /\ \E all_reply \in AllSolversReplies, names_reply \in NamesReplies, failed \in SUBSET Range(SolverNames) :
          LET r == learn_using_solver(is_present, versions[j], indexes[i], solver, kg.solved, all_reply, names_reply, failed)
          IN /\ Record(r.calls)
             /\ solver_wfs_scheduled' = IF r.raised THEN solver_wfs_scheduled ELSE r.count
             /\ pc' = IF r.raised THEN "raised" ELSE "revsolver"
    /\ UNCHANGED <<event, indexes, i, versions, j, probed, revsolver_packages_seen, revsolver_wfs_scheduled, si_wfs_scheduled, totals, sink>>

\* Lines 159-165: common.learn_using_revsolver(...).
LearnUsingRevsolver ==
    /\ pc = "revsolver"
    /\ \E reply \in CallReplies :
          LET r == learn_using_revsolver(is_present, versions[j], revsolver_packages_seen, reply)
          IN /\ Record(r.calls)
             /\ revsolver_wfs_scheduled' = r.count
             /\ revsolver_packages_seen' = r.seen
    /\ pc' = "security"
    /\ UNCHANGED <<event, indexes, i, versions, j, probed, solver_wfs_scheduled, si_wfs_scheduled, totals, sink>>

\* Lines 169-176: common.learn_about_security(...).
LearnAboutSecurity ==
    /\ pc = "security"
    /\ \E reply \in CallReplies :
          LET r == learn_about_security(is_present, versions[j], indexes[i], kg.si, reply)
          IN /\ Record(r.calls)
             /\ si_wfs_scheduled' = r.count
    /\ pc' = "accumulate"
    /\ UNCHANGED <<event, indexes, i, versions, j, probed, revsolver_packages_seen, solver_wfs_scheduled, revsolver_wfs_scheduled, totals, sink>>

\* Accumulate that stores the counts of the version instead of adding them.
Accumulate_overwriting ==
    /\ pc = "accumulate"
    /\ total_solver_wfs_scheduled' = solver_wfs_scheduled
    /\ total_revsolver_wfs_scheduled' = revsolver_wfs_scheduled
    /\ total_si_wfs_scheduled' = si_wfs_scheduled
    /\ Record(<<>>)
    /\ IF j < Len(versions)
       THEN j' = j + 1 /\ pc' = "probe" /\ i' = i
       ELSE NextIndex /\ j' = j
    /\ UNCHANGED <<event, indexes, versions, probed, revsolver_packages_seen, iteration, sink>>

\* Accumulate that leaves the loop over versions after the first version.
Accumulate_leaving_versions ==
    /\ pc = "accumulate"
    /\ total_solver_wfs_scheduled' = total_solver_wfs_scheduled + solver_wfs_scheduled
    /\ total_revsolver_wfs_scheduled' = total_revsolver_wfs_scheduled + revsolver_wfs_scheduled
    /\ total_si_wfs_scheduled' = total_si_wfs_scheduled + si_wfs_scheduled
    /\ Record(<<>>)
    /\ NextIndex /\ j' = j
    /\ UNCHANGED <<event, indexes, versions, probed, revsolver_packages_seen, iteration, sink>>

\* Lines 178-180 and the step of both loops.
Accumulate ==
    /\ pc = "accumulate"
    /\ total_solver_wfs_scheduled' = total_solver_wfs_scheduled + solver_wfs_scheduled
    /\ total_revsolver_wfs_scheduled' = total_revsolver_wfs_scheduled + revsolver_wfs_scheduled
    /\ total_si_wfs_scheduled' = total_si_wfs_scheduled + si_wfs_scheduled
    /\ Record(<<>>)
    /\ IF j < Len(versions)
       THEN j' = j + 1 /\ pc' = "probe" /\ i' = i
       ELSE NextIndex /\ j' = j
    /\ UNCHANGED <<event, indexes, versions, probed, revsolver_packages_seen, iteration, sink>>

\* Lines 182-194: the three scheduled_workflows counters, then success.
EmitMetrics ==
    /\ pc = "emit"
    /\ emitted' = emitted \o << [workflow_type |-> "solver", amount |-> total_solver_wfs_scheduled],
                                [workflow_type |-> "revsolver", amount |-> total_revsolver_wfs_scheduled],
                                [workflow_type |-> "security-indicator", amount |-> total_si_wfs_scheduled] >>
    /\ success' = success + 1
    /\ Record(<<>>)
    /\ pc' = "done"
    /\ UNCHANGED <<event, indexes, i, versions, j, probed, revsolver_packages_seen, iteration, totals>>

Next ==
    \/ SelectIndexes
    \/ CheckPackageVersion
    \/ VersionsLoop
    \/ ProbeExists
    \/ LearnUsingSolver
    \/ LearnUsingRevsolver
    \/ LearnAboutSecurity
    \/ Accumulate
    \/ EmitMetrics

Spec == Init /\ [][Next]_vars

\* ------------------------------------------- investigate_unresolved_package
\* Lines 48-55: the path of the document; FileNotFoundError if nothing is there.
OpenDocument ==
    /\ at = "open"
    /\ IF document.exists
       THEN at' = "read" /\ outcome' = outcome
       ELSE at' = "done" /\ outcome' = "FileNotFoundError"
    /\ UNCHANGED <<dispatch, concurrent, document, unresolved_packages, packages_to_solve, n>>

\* Lines 57-69: the "unresolved" list of the report; sys.exit(2) if it is
\* missing or empty.
ReadReport ==
    /\ at = "read"
    /\ unresolved_packages' = IF document.report.details THEN document.report.unresolved ELSE <<>>
    /\ IF unresolved_packages' = <<>>
       THEN at' = "done" /\ outcome' = "sys.exit(2)" /\ n' = n
       ELSE at' = "match" /\ outcome' = outcome /\ n' = 1
    /\ UNCHANGED <<dispatch, concurrent, document, packages_to_solve>>

\* packages_to_solve[package_name] = entry.
Assign(mapping, package_name, entry) ==
    [x \in DOMAIN mapping \cup {package_name} |-> IF x = package_name THEN entry ELSE mapping[x]]

\* Lines 82-89: one unresolved package; the entry of dev_packages replaces
\* the entry of packages.
MatchPackage ==
    /\ at = "match"
    /\ LET package_name == unresolved_packages[n]
           first == IF package_name \in document.packages
                    THEN Assign(packages_to_solve, package_name, PackagesEntry(package_name))
                    ELSE packages_to_solve
       IN packages_to_solve' = IF package_name \in document.dev_packages
                               THEN Assign(first, package_name, DevPackagesEntry(package_name))
                               ELSE first
    /\ IF n < Len(unresolved_packages)
       THEN n' = n + 1 /\ at' = at
       ELSE n' = n /\ at' = "return"
    /\ UNCHANGED <<dispatch, concurrent, document, unresolved_packages, outcome>>

\* Lines 91-96: return (packages_to_solve, solver), whatever was matched.
ReturnPackages ==
    /\ at = "return"
    /\ outcome' = "returned"
    /\ at' = "done"
    /\ UNCHANGED <<dispatch, concurrent, document, unresolved_packages, packages_to_solve, n>>

\* The value investigate_unresolved_package returned.
Returned == <<packages_to_solve, IF Falsy(document.solver) THEN None ELSE document.solver>>

InitInvestigate ==
    /\ Start(FALSE)
    /\ package_version = None /\ requested_indexes = Absent /\ solver = None
    /\ registered_indexes = <<"https://pypi.org/simple">>
    /\ \E d \in Documents : InvestigationAt(d, "open")
    /\ NoneConcurrent

NextInvestigate ==
    \/ OpenDocument
    \/ ReadReport
    \/ MatchPackage
    \/ ReturnPackages

SpecInvestigate == InitInvestigate /\ [][NextInvestigate]_vars

\* The same program, keeping the history of its scheduling calls and of its
\* failed index queries.
SpecTraced == InitTraced /\ [][Next]_vars

\* ------------------------------------------------- concurrent invocations
Procs == {1, 2}
\* What the collaborators answer, whoever asks and whenever: the registered
\* indexes, the versions each index publishes (or the error of its query),
\* the versions the graph knows (solved by solver-a, no security fact) and
\* the scheduler operations that raise.
ConcurrentRegistered == <<"https://pypi.org/simple", "https://tensorflow.pypi.thoth-station.ninja/simple">>
ConcurrentReplies == {[raised |-> TRUE, ret |-> <<>>], [raised |-> FALSE, ret |-> <<1, 1>>], [raised |-> FALSE, ret |-> <<2, 1>>]}
Worlds == [registered : {ConcurrentRegistered},
           published : [Range(ConcurrentRegistered) -> ConcurrentReplies],
           known : SUBSET VersionStrings,
           failing : {{}, {"schedule_revsolver"}, {"schedule_all_solvers"}}]
ConcurrentMessages == [package_version : {"*", "1.0"}, index_url : {Absent}, solver : {None}]
FactsOf(w, version) == IF version \in w.known THEN [pv |-> TRUE, solved |-> {"solver-a"}, si |-> FALSE] ELSE NoFacts
Reply(w, op) == [raised |-> op \in w.failing]
AllSolversReply(w) == [raised |-> "schedule_all_solvers" \in w.failing,
                       ret |-> IF "schedule_all_solvers" \in w.failing THEN <<>> ELSE [k \in 1..Len(SolverNames) |-> k]]
NamesReply == [raised |-> FALSE, ret |-> SolverNames]
FailedSolvers(w) == IF "schedule_solver" \in w.failing THEN Range(SolverNames) ELSE {}

\* The locals of an invocation at its entry.
Entered == [pc |-> "select", indexes |-> <<>>, i |-> 0, versions |-> <<>>, j |-> 0, is_present |-> FALSE,
            revsolver_packages_seen |-> <<>>,
            solver_wfs_scheduled |-> 0, revsolver_wfs_scheduled |-> 0, si_wfs_scheduled |-> 0,
            total_solver_wfs_scheduled |-> 0, total_revsolver_wfs_scheduled |-> 0, total_si_wfs_scheduled |-> 0,
            calls |-> <<>>, made |-> 0, emitted |-> <<>>]

\* An invocation that finds the list of the first invocation instead of its own.
shared_revsolver_packages_seen(all, p) == all[1].revsolver_packages_seen

\* Line 135: the list an invocation hands to learn_using_revsolver is the
\* one it created itself.
own_revsolver_packages_seen(all, p) == all[p].revsolver_packages_seen

\* Invocation p moves on to the locals l.
Becomes(p, l) ==
    /\ invocation' = [invocation EXCEPT ![p] = l]
    /\ UNCHANGED <<dispatch, investigation, messages, world>>

\* The next index, or the metrics after the last.
AtNextIndex(l) == [l EXCEPT !.i = l.i + 1, !.pc = IF l.i + 1 <= Len(l.indexes) THEN "check_version" ELSE "emit"]

\* Lines 105-127.
SelectIndexesOf(p) ==
    LET l == invocation[p]
        chosen == select_indexes(world.registered, messages[p].index_url)
    IN /\ l.pc = "select"
       /\ Becomes(p, [l EXCEPT !.indexes = chosen, !.i = 1,
                               !.pc = IF Len(chosen) >= 1 THEN "check_version" ELSE "emit",
                               !.calls = @ \o <<Call("get_python_package_index_urls_all", "-", "-", "-", "ok", <<>>)>>])
       /\ UNCHANGED metrics

\* Lines 131-138.
CheckPackageVersionOf(p) ==
    LET l == invocation[p]
        r == _check_package_version(messages[p].package_version, l.indexes[l.i], world.published[l.indexes[l.i]])
        m == [l EXCEPT !.versions = r.versions, !.revsolver_packages_seen = <<>>, !.calls = @ \o r.calls]
    IN /\ l.pc = "check_version"
       /\ Becomes(p, IF r.versions = <<>> THEN AtNextIndex(m) ELSE [m EXCEPT !.j = 1, !.pc = "probe"])
       /\ UNCHANGED metrics

\* Lines 141-143.
ProbeExistsOf(p) ==
    LET l == invocation[p]
        f == FactsOf(world, l.versions[l.j])
    IN /\ l.pc = "probe"
       /\ Becomes(p, [l EXCEPT !.is_present = f.pv, !.pc = "solver",
                               !.calls = @ \o <<Call("python_package_version_exists", l.versions[l.j], l.indexes[l.i], "-", IF f.pv THEN "true" ELSE "false", <<>>)>>])
       /\ UNCHANGED metrics

\* An invocation with locals l inside a learner that makes the calls todo
\* from its entry to its return: it makes the next of them, and another
\* invocation may run before the one after; with the last of them (or with
\* none to make) the learner returns and the locals are those of returned.
NextCall(l, todo, returned) ==
    IF l.made + 1 < Len(todo)
    THEN [l EXCEPT !.made = @ + 1, !.calls = Append(@, todo[l.made + 1])]
    ELSE [returned EXCEPT !.made = 0, !.calls = IF l.made < Len(todo) THEN Append(l.calls, todo[l.made + 1]) ELSE l.calls]

\* Lines 147-155: one step for every call of learn_using_solver (lines 239,
\* 247, 253; 232).
LearnUsingSolverOf(p) ==
    LET l == invocation[p]
        r == learn_using_solver(l.is_present, l.versions[l.j], l.indexes[l.i], messages[p].solver,
                                FactsOf(world, l.versions[l.j]).solved, AllSolversReply(world), NamesReply, FailedSolvers(world))
    IN /\ l.pc = "solver"
       /\ Becomes(p, NextCall(l, r.calls, [l EXCEPT !.solver_wfs_scheduled = r.count, !.pc = "revsolver"]))
       /\ UNCHANGED metrics

\* Lines 159-165.
LearnUsingRevsolverOf(p) ==
    LET l == invocation[p]
        r == learn_using_revsolver(l.is_present, l.versions[l.j], own_revsolver_packages_seen(invocation, p), Reply(world, "schedule_revsolver"))
    IN /\ l.pc = "revsolver"
       /\ Becomes(p, [l EXCEPT !.revsolver_wfs_scheduled = r.count, !.revsolver_packages_seen = r.seen,
                               !.pc = "security", !.calls = @ \o r.calls])
       /\ UNCHANGED metrics

\* Lines 169-176: one step for every call of common.learn_about_security
\* (common.py lines 50, 58).
LearnAboutSecurityOf(p) ==
    LET l == invocation[p]
        r == learn_about_security(l.is_present, l.versions[l.j], l.indexes[l.i], FactsOf(world, l.versions[l.j]).si, Reply(world, "schedule_security_indicator"))
    IN /\ l.pc = "security"
       /\ Becomes(p, NextCall(l, r.calls, [l EXCEPT !.si_wfs_scheduled = r.count, !.pc = "accumulate"]))
       /\ UNCHANGED metrics

\* Lines 178-180 and the step of both loops.
AccumulateOf(p) ==
    LET l == invocation[p]
        m == [l EXCEPT !.total_solver_wfs_scheduled = @ + l.solver_wfs_scheduled,
                       !.total_revsolver_wfs_scheduled = @ + l.revsolver_wfs_scheduled,
                       !.total_si_wfs_scheduled = @ + l.si_wfs_scheduled]
    IN /\ l.pc = "accumulate"
       /\ Becomes(p, IF l.j < Len(l.versions) THEN [m EXCEPT !.j = l.j + 1, !.pc = "probe"] ELSE AtNextIndex(m))
       /\ UNCHANGED metrics

\* scheduled_workflows.labels(...).inc(amount) by invocation p: one of the
\* three statements of lines 182-192, on a counter every invocation adds to.
Inc(p, k, amount, then) ==
    /\ Becomes(p, [invocation[p] EXCEPT !.emitted = Append(@, amount), !.pc = then])
    /\ scheduled_workflows' = [scheduled_workflows EXCEPT ![k] = @ + amount]
    /\ UNCHANGED unresolved_package_success

\* Lines 182-184.
EmitSolverOf(p) ==
    /\ invocation[p].pc = "emit"
    /\ Inc(p, 1, invocation[p].total_solver_wfs_scheduled, "emit_revsolver")

\* Lines 186-188.
EmitRevsolverOf(p) ==
    /\ invocation[p].pc = "emit_revsolver"
    /\ Inc(p, 2, invocation[p].total_revsolver_wfs_scheduled, "emit_security")

\* Lines 190-192.
EmitSecurityOf(p) ==
    /\ invocation[p].pc = "emit_security"
    /\ Inc(p, 3, invocation[p].total_si_wfs_scheduled, "success")

\* Line 194 and the return.
SucceedOf(p) ==
    /\ invocation[p].pc = "success"
    /\ Becomes(p, [invocation[p] EXCEPT !.pc = "done"])
    /\ unresolved_package_success' = unresolved_package_success + 1
    /\ UNCHANGED scheduled_workflows

InitConcurrent ==
    /\ Start(FALSE)
    /\ package_version = None /\ requested_indexes = Absent /\ solver = None
    /\ registered_indexes = <<"https://pypi.org/simple">>
    /\ InvestigationAt(NoDocument, "idle")
    /\ messages \in [Procs -> ConcurrentMessages]
    /\ messages[1].package_version = "*"
    /\ invocation = [p \in Procs |-> Entered]
    /\ world \in Worlds
    /\ scheduled_workflows = <<0, 0, 0>>
    /\ unresolved_package_success = 0

NextConcurrent ==
    \E p \in Procs :
        \/ SelectIndexesOf(p)
        \/ CheckPackageVersionOf(p)
        \/ ProbeExistsOf(p)
        \/ LearnUsingSolverOf(p)
        \/ LearnUsingRevsolverOf(p)
        \/ LearnAboutSecurityOf(p)
        \/ AccumulateOf(p)
        \/ EmitSolverOf(p)
        \/ EmitRevsolverOf(p)
        \/ EmitSecurityOf(p)
        \/ SucceedOf(p)

SpecConcurrent == InitConcurrent /\ [][NextConcurrent]_vars

\* ------------------------------------------------------------------- claims
\* The calls of io that schedule a workflow.
Pinned == ~Falsy(package_version) /\ package_version # "*"

\* C1: in one run of parse_unresolved_package_message,
\* openshift.schedule_revsolver is called at most once for every
\* (package_name, package_version) pair, also when two selected indexes both
\* yield the version and the graph knows it under neither.
C1_RevsolverOncePerPair == \A v \in VersionStrings : rev_attempts[v] <= 1

\* C2: while every candidate examined so far is fully known to the graph
\* (the package version, every solver of the candidate backend set, the
\* security fact), no step has made a scheduling call and the per-version
\* counts, the three totals and whatever was emitted are all 0.  all_known
\* never turns true again, so a run that ends with it made no scheduling
\* call in any of its steps.
C2_FullyKnownSchedulesNothing ==
    all_known =>
        /\ Scheduling(io) = {}
        /\ iteration = <<0, 0, 0>>
        /\ totals = <<0, 0, 0>>
        /\ \A k \in 1..Len(emitted) : emitted[k].amount = 0

\* C2 witness: a finished run over two candidates, both fully known, with
\* no solver named in the message.
C2_Witness == pc = "done" /\ all_known /\ probes = 2 /\ solver = None /\ Len(emitted) = 3

\* C3: for a candidate the graph does not know, learn_using_solver makes
\* exactly one call, schedule_all_solvers for that version on that one index,
\* no per-solver probe and no schedule_solver call, whatever solver the
\* message names, and returns the number of ids the call returned, 0 if it
\* raised.
C3_UnknownSchedulesAllSolvers ==
    (pc = "revsolver" /\ ~is_present) =>
        /\ Len(io) = 1
        /\ io[1].op = "schedule_all_solvers"
        /\ io[1].pkg = PackageName /\ io[1].ver = versions[j] /\ io[1].idx = indexes[i] /\ io[1].slv = "-"
        /\ solver_wfs_scheduled = IF io[1].res = "raise" THEN 0 ELSE Len(io[1].ret)

\* C3 witness: the message names a solver, the candidate is unknown and
\* schedule_all_solvers returned a single id.
C3_Witness == pc = "revsolver" /\ ~is_present /\ solver = "solver-a" /\ io[1].res = "ok" /\ Len(io[1].ret) = 1 /\ solver_wfs_scheduled = 1

\* C4, as claimed: for a candidate whose security fact the graph holds, no
\* security-indicator workflow is scheduled and the security count is 0,
\* whatever the package-version probe returned.
C4_KnownSecurityNeverScheduled ==
    (pc = "accumulate" /\ kg.si) =>
        /\ Calls(io, "schedule_security_indicator") = {}
        /\ si_wfs_scheduled = 0

\* C4, amended: for a candidate whose security fact the graph holds, no
\* security-indicator workflow is scheduled and the security count is 0 when
\* the package-version probe returned true; when it returned false the
\* security fact is not asked for and one schedule_security_indicator call is
\* made for the candidate.
C4_KnownSecuritySkippedWhenPresent ==
    (pc = "accumulate" /\ kg.si) =>
        /\ is_present => (Calls(io, "schedule_security_indicator") = {} /\ si_wfs_scheduled = 0)
        /\ ~is_present =>
              /\ Cardinality(Calls(io, "schedule_security_indicator")) = 1
              /\ \A k \in Calls(io, "schedule_security_indicator") : io[k].ver = versions[j] /\ io[k].idx = indexes[i]
              /\ Calls(io, "si_aggregated_python_package_version_exists") = {}

\* C4 witness: the graph holds the security fact and nothing else about the
\* candidate, and a security-indicator workflow was scheduled for it.
C4_Witness == pc = "accumulate" /\ kg = [pv |-> FALSE, solved |-> {}, si |-> TRUE] /\ si_wfs_scheduled = 1

\* C5, as claimed: learn_about_security called with is_present = true
\* returns 0 and makes no schedule_security_indicator call.
C5_PresentNeverSchedulesSecurity ==
    (pc = "accumulate" /\ is_present) =>
        /\ Calls(io, "schedule_security_indicator") = {}
        /\ si_wfs_scheduled = 0

\* C5, amended: learn_about_security called with is_present = true asks the
\* graph for the security fact of the candidate; it returns 0 without a
\* scheduling call when the fact exists, and otherwise makes exactly one
\* schedule_security_indicator call and returns 1 if the call returned, 0 if
\* it raised.  Called with is_present = false it makes exactly one
\* schedule_security_indicator call and asks the graph nothing.
C5_SecurityLearner ==
    pc = "accumulate" =>
        LET sched == [op |-> "schedule_security_indicator", pkg |-> PackageName, ver |-> versions[j], idx |-> indexes[i], slv |-> "-"]
            query == [op |-> "si_aggregated_python_package_version_exists", pkg |-> PackageName, ver |-> versions[j], idx |-> indexes[i], slv |-> "-"]
            Is(c, what) == [f \in DOMAIN what |-> c[f]] = what
        IN /\ (is_present /\ kg.si) =>
                /\ Len(io) = 1 /\ Is(io[1], query) /\ io[1].res = "true"
                /\ si_wfs_scheduled = 0
           /\ (is_present /\ ~kg.si) =>
                /\ Len(io) = 2 /\ Is(io[1], query) /\ io[1].res = "false" /\ Is(io[2], sched)
                /\ si_wfs_scheduled = IF io[2].res = "raise" THEN 0 ELSE 1
           /\ ~is_present =>
                /\ Len(io) = 1 /\ Is(io[1], sched)
                /\ si_wfs_scheduled = IF io[1].res = "raise" THEN 0 ELSE 1

\* C5 witness: is_present = true, the security fact is missing and the
\* workflow was scheduled.
C5_Witness == pc = "accumulate" /\ is_present /\ ~kg.si /\ Len(io) = 2 /\ io[2].res = "ok" /\ si_wfs_scheduled = 1

\* C6: the indexes a run iterates over are the registered indexes when the
\* message has no or an empty index list, the requested indexes when each of
\* them is registered, and the registered indexes when one of them is not;
\* no collaborator call carries an index URL that is not registered.
C6_IndexSelection ==
    pc # "select" =>
        LET urls == requested_indexes.urls
            unregistered == {k \in 1..Len(urls) : \A m \in 1..Len(registered_indexes) : registered_indexes[m] # urls[k]}
        IN /\ (~requested_indexes.present \/ Len(urls) = 0) => indexes = registered_indexes
           /\ (requested_indexes.present /\ Len(urls) > 0 /\ unregistered = {}) => indexes = urls
           /\ (requested_indexes.present /\ unregistered # {}) => indexes = registered_indexes
           /\ \A k \in 1..Len(io) : io[k].idx = "-" \/ \E m \in 1..Len(registered_indexes) : registered_indexes[m] = io[k].idx

\* C6 witness: one of the two requested indexes is not registered and the
\* run probes the graph under the second registered index.
C6_Witness ==
    /\ pc = "solver" /\ i = 2
    /\ requested_indexes = Requested(<<"https://pypi.org/simple", "https://unregistered.example/simple">>)
    /\ indexes = <<"https://pypi.org/simple", "https://tensorflow.pypi.thoth-station.ninja/simple">>
    /\ io[1].idx = "https://tensorflow.pypi.thoth-station.ninja/simple"

\* C7: _check_package_version called with a non-empty package_version other
\* than "*" returns the list of that one version and does not ask the package
\* index; called with an absent or empty version or "*" it asks the index of
\* the iteration once and returns the str() of each version the client
\* returned, in the client's order.
C7_VersionResolution ==
    pc = "versions_loop" =>
        /\ Pinned => (versions = <<package_version>> /\ io = <<>>)
        /\ ~Pinned =>
              /\ Len(io) = 1
              /\ io[1].op = "get_sorted_package_versions" /\ io[1].idx = indexes[i]
              /\ io[1].res = "ok" =>
                    /\ Len(versions) = Len(io[1].ret)
                    /\ \A k \in 1..Len(versions) : versions[k] = str(io[1].ret[k])

\* C7 witness: the second index of a run with a pinned version.
C7_Witness == pc = "versions_loop" /\ i = 2 /\ package_version = "1.0" /\ versions = <<"1.0">> /\ io = <<>>

\* C8: no error of an OpenShift call (schedule_solver, schedule_all_solvers,
\* schedule_revsolver, schedule_security_indicator, get_solver_names) leaves
\* parse_unresolved_package_message.
C8_SchedulerErrorsAbsorbed == pc # "raised"

\* C9: for a known candidate, a schedule_solver call that raises counts 0
\* and stops nothing: every solver of the backend set that the graph reports
\* unsolved gets its schedule_solver call, the handler goes on to the
\* reverse solver, and the count returned is the number of schedule_solver
\* calls that returned.
C9_SolverFailureIsLocal ==
    (pc \in {"revsolver", "raised"} /\ is_present /\ Calls(io, "get_solver_names") \cap {k \in 1..Len(io) : io[k].res = "raise"} = {}) =>
        /\ pc = "revsolver"
        /\ \A s \in BackendSet \ kg.solved :
              \E k \in Calls(io, "schedule_solver") : io[k].slv = s /\ io[k].ver = versions[j] /\ io[k].idx = indexes[i]
        /\ solver_wfs_scheduled = Cardinality({k \in Calls(io, "schedule_solver") : io[k].res = "ok"})

\* C9 witness: schedule_solver raised for the first solver and returned for
\* the second.
C9_Witness ==
    /\ pc = "revsolver" /\ is_present /\ solver_wfs_scheduled = 1
    /\ \E k \in Calls(io, "schedule_solver") : \E m \in Calls(io, "schedule_solver") :
          k < m /\ io[k].res = "raise" /\ io[m].res = "ok"

\* The scenario of C10: one registered index, no version pinned, no index
\* list in the message, two distinct versions published, no fact in the
\* graph about any candidate examined, two solvers, every call so far
\* returning (schedule_all_solvers with one id per solver).
C10_Scenario ==
    /\ registered_indexes = <<"https://pypi.org/simple">>
    /\ ~Pinned
    /\ requested_indexes = Absent
    /\ Len(SolverNames) = 2
    /\ Len(versions) = 2 /\ versions[1] # versions[2]
    /\ none_known
    /\ faults = 0

\* C10: in that scenario each version counts 2 solver, 1 reverse-solver and
\* 1 security workflow, and the run ends with the totals 4, 2 and 2, which
\* are the amounts it emits.
C10_ScenarioTotals ==
    C10_Scenario =>
        /\ pc = "accumulate" => iteration = <<2, 1, 1>>
        /\ pc \in {"emit", "done"} => totals = <<4, 2, 2>>
        /\ pc = "done" => [k \in 1..Len(emitted) |-> emitted[k].amount] = <<4, 2, 2>>

\* C10 witness: the scenario, finished.
C10_Witness == C10_Scenario /\ pc = "done" /\ versions = <<"2.0", "1.0">> /\ package_version = "*"

\* C11: in one run no scheduling call is made twice with the same
\* arguments: no call of a step asks for what a call of an earlier step
\* asked for, and no two calls of one step ask for the same.
C11_NoCallRepeated ==
    [][/\ \A k \in Scheduling(io') : Key(io'[k]) \notin sched_keys
       /\ \A k \in Scheduling(io') : \A m \in Scheduling(io') : Key(io'[k]) = Key(io'[m]) => k = m]_vars

\* C12: when the report lists unresolved packages and none of them is among
\* the packages or the dev-packages the project declares,
\* investigate_unresolved_package does not return normally: its caller gets
\* a signal that is not the ordinary return of a mapping.
C12_UnmatchedIsSignalled ==
    (/\ at = "done"
     /\ document.exists
     /\ document.report.details /\ document.report.unresolved # <<>>
     /\ Range(document.report.unresolved) \cap (document.packages \cup document.dev_packages) = {})
        => outcome # "returned"

\* C13: learn_using_revsolver calls schedule_revsolver exactly when is_present
\* is false and (package_name, package_version) is not in
\* revsolver_packages_seen, then once and for that pair; otherwise it returns
\* 0, calls nothing and leaves the list as it was.  A known package version
\* gets no reverse-solver workflow.
C13_RevsolverCondition ==
    [][pc = "revsolver" =>
          LET pair == <<PackageName, versions[j]>>
              wanted == ~is_present /\ pair \notin Range(revsolver_packages_seen)
          IN /\ wanted <=> (Calls(io', "schedule_revsolver") # {})
             /\ wanted => (Len(io') = 1 /\ io'[1].pkg = PackageName /\ io'[1].ver = versions[j])
             /\ ~wanted => (io' = <<>> /\ revsolver_wfs_scheduled' = 0 /\ revsolver_packages_seen' = revsolver_packages_seen)
             /\ is_present => Scheduling(io') = {}]_vars

\* C13 witness: a known package version with every solver and the security
\* fact missing, after learn_using_revsolver: no call, count 0.
C13_Witness == pc = "security" /\ is_present /\ kg.solved = {} /\ ~kg.si /\ io = <<>> /\ revsolver_wfs_scheduled = 0 /\ solver_wfs_scheduled = 2

\* C14: when learn_using_revsolver attempts schedule_revsolver, the pair is
\* in the list it returns whether the call returned or raised, and a call of
\* learn_using_revsolver that gets a list holding the pair attempts nothing.
C14_AttemptIsRemembered ==
    [][pc = "revsolver" =>
          LET pair == <<PackageName, versions[j]>>
          IN /\ (Calls(io', "schedule_revsolver") # {}) => pair \in Range(revsolver_packages_seen')
             /\ pair \in Range(revsolver_packages_seen) => (io' = <<>> /\ revsolver_wfs_scheduled' = 0)]_vars

\* C14 witness: the index published a version twice; schedule_revsolver
\* raised for the first occurrence and was not called for the second.
C14_Witness ==
    /\ pc = "security" /\ j = 2 /\ ~is_present /\ io = <<>>
    /\ versions[1] = versions[2]
    /\ rev_attempts[versions[2]] = 1
    /\ total_revsolver_wfs_scheduled = 0 /\ revsolver_wfs_scheduled = 0
    /\ revsolver_packages_seen = <<<<PackageName, versions[2]>>>>

\* C15: for a known package version learn_using_solver looks at the solver
\* the message names, or at every name of get_solver_names when it names
\* none; for each of them it asks the graph once, with that solver name, and
\* calls schedule_solver exactly when the answer is false, right after the
\* answer; it never calls schedule_all_solvers.
C15_PerSolverGapFilling ==
    (pc = "revsolver" /\ is_present) =>
        /\ Calls(io, "schedule_all_solvers") = {}
        /\ Falsy(solver) <=> (Calls(io, "get_solver_names") # {})
        /\ \A k \in Calls(io, "python_package_version_exists") \cup Calls(io, "schedule_solver") :
              io[k].slv \in BackendSet /\ io[k].ver = versions[j] /\ io[k].idx = indexes[i]
        /\ \A s \in BackendSet :
              /\ Cardinality({k \in Calls(io, "python_package_version_exists") : io[k].slv = s}) = 1
              /\ \A k \in Calls(io, "python_package_version_exists") : io[k].slv = s => (io[k].res = "true" <=> s \in kg.solved)
              /\ Cardinality({k \in Calls(io, "schedule_solver") : io[k].slv = s}) = IF s \in kg.solved THEN 0 ELSE 1
        /\ \A k \in Calls(io, "schedule_solver") :
              k > 1 /\ io[k - 1].op = "python_package_version_exists" /\ io[k - 1].slv = io[k].slv /\ io[k - 1].res = "false"

\* C15 witness: the message names solver-a, the graph holds the package
\* version solved by solver-b alone, and solver-a alone was scheduled.
C15_Witness ==
    /\ pc = "revsolver" /\ is_present /\ solver = "solver-a" /\ kg.solved = {"solver-b"}
    /\ Len(io) = 2 /\ io[2].op = "schedule_solver" /\ io[2].slv = "solver-a" /\ io[2].res = "ok"
    /\ solver_wfs_scheduled = 1

\* C16: a query of a package index that raised does not keep the run from
\* ending normally: no exception leaves parse_unresolved_package_message in
\* a run where get_sorted_package_versions raised.
C16_IndexFailureNeverEndsTheRun == index_failed => pc # "raised"

\* C17: a run that ends normally emits the three totals once each, after
\* its last scheduling call; the amount emitted for a kind is the number of
\* workflows of that kind known to have started in the run (for solver: the
\* ids schedule_all_solvers returned plus the schedule_solver calls that
\* returned); no total is ever negative and no total ever decreases.
C17_EmittedOnce ==
    /\ emitted # <<>> => pc = "done"
    /\ pc = "done" =>
          /\ emitted = << [workflow_type |-> "solver", amount |-> jobs_ok.solver],
                          [workflow_type |-> "revsolver", amount |-> jobs_ok.revsolver],
                          [workflow_type |-> "security-indicator", amount |-> jobs_ok.security] >>
          /\ totals = <<jobs_ok.solver, jobs_ok.revsolver, jobs_ok.security>>
          /\ success = 1
    /\ \A k \in 1..3 : totals[k] >= 0

C17_TotalsEmittedOnceAtTheEnd ==
    /\ []C17_EmittedOnce
    /\ [][/\ \A k \in 1..3 : totals'[k] >= totals[k]
          /\ Scheduling(io') # {} => emitted' = <<>>
          /\ emitted # <<>> => (emitted' = emitted /\ Scheduling(io') = {})]_vars

\* C17 witness: a run that has ended after two candidates, with workflows
\* of every kind started and one scheduling call that raised.
C17_Witness ==
    /\ pc = "done" /\ probes = 2 /\ faults = 1
    /\ jobs_ok.solver >= 2 /\ jobs_ok.revsolver >= 1 /\ jobs_ok.security >= 1
    /\ Len(emitted) = 3 /\ emitted[1].amount = jobs_ok.solver

\* C18: the calls of one run come in a fixed order.  The index in use only
\* moves forward through the selected list, one index at a time; under one
\* index the versions are taken in the order of the list the index gave, the
\* next one only after the security step of the one before; under one
\* version the graph is asked first, then come the calls of the solver
\* step, then of the reverse-solver step, then of the security step; every
\* call carries the index and the version in use.
C18_PhaseOps(p) ==
    CASE p = "select" -> {"get_python_package_index_urls_all"}
      [] p = "check_version" -> {"get_sorted_package_versions"}
      [] p = "probe" -> {"python_package_version_exists"}
      [] p = "solver" -> {"schedule_all_solvers", "get_solver_names", "python_package_version_exists", "schedule_solver"}
      [] p = "revsolver" -> {"schedule_revsolver"}
      [] p = "security" -> {"si_aggregated_python_package_version_exists", "schedule_security_indicator"}
      [] OTHER -> {}

C18_PhaseStep ==
    CASE pc = "select" -> i' = 1 /\ pc' \in {"check_version", "emit"}
      [] pc = "check_version" -> i' = i /\ pc' = "versions_loop"
      [] pc = "versions_loop" ->
            IF versions = <<>>
            THEN i' = i + 1 /\ pc' = (IF i < Len(indexes) THEN "check_version" ELSE "emit")
            ELSE i' = i /\ j' = 1 /\ pc' = "probe"
      [] pc = "probe" -> i' = i /\ j' = j /\ pc' = "solver"
      [] pc = "solver" -> i' = i /\ j' = j /\ pc' \in {"revsolver", "raised"}
      [] pc = "revsolver" -> i' = i /\ j' = j /\ pc' = "security"
      [] pc = "security" -> i' = i /\ j' = j /\ pc' = "accumulate"
      [] pc = "accumulate" ->
            IF j < Len(versions)
            THEN i' = i /\ j' = j + 1 /\ pc' = "probe"
            ELSE i' = i + 1 /\ pc' = (IF i < Len(indexes) THEN "check_version" ELSE "emit")
      [] pc = "emit" -> pc' = "done"
      [] OTHER -> FALSE

C18_FixedCallOrder ==
    [][/\ C18_PhaseStep
       /\ pc # "select" => (indexes' = indexes)
       /\ pc # "check_version" => (versions' = versions)
       /\ \A k \in 1..Len(io') :
             /\ io'[k].op \in C18_PhaseOps(pc)
             /\ io'[k].idx # "-" => (i \in 1..Len(indexes) /\ io'[k].idx = indexes[i])
             /\ (io'[k].ver # "-" /\ pc # "check_version") => (j \in 1..Len(versions) /\ io'[k].ver = versions[j])
       /\ pc = "probe" => (Len(io') = 1 /\ io'[1].slv = "-")
       /\ pc = "solver" => (\A k \in Calls(io', "python_package_version_exists") : io'[k].slv # "-")]_vars

\* C18 witness: the only version of the second index, after its security
\* step, which made a call for that index and version; the first index had a
\* version too.
C18_Witness ==
    /\ pc = "accumulate" /\ i = 2 /\ Len(indexes) = 2 /\ j = 1 /\ Len(versions) = 1
    /\ probes = 2 /\ total_solver_wfs_scheduled > 0
    /\ Len(io) >= 1 /\ io[Len(io)].idx = indexes[2] /\ io[Len(io)].ver = versions[1]

\* C19: the list of reverse-solver pairs holds no pair twice and holds
\* exactly the pairs for which schedule_revsolver was attempted since the
\* run began: it is created once and kept, not emptied between indexes.
C19_DedupListSpansTheRun ==
    /\ \A k \in 1..Len(revsolver_packages_seen) : \A m \in 1..Len(revsolver_packages_seen) :
          revsolver_packages_seen[k] = revsolver_packages_seen[m] => k = m
    /\ Range(revsolver_packages_seen) = {<<PackageName, v>> : v \in {w \in VersionStrings : rev_attempts[w] > 0}}

\* What parse_unresolved_package_message does with message m in world w
\* when it runs alone, from entry to return: the calls it makes, in order,
\* and the three totals it emits.
RECURSIVE AloneVersions(_, _, _, _, _, _)
AloneVersions(m, w, index_url, todo, seen, sofar) ==
    IF todo = <<>>
    THEN sofar
    ELSE LET version == Head(todo)
             f == FactsOf(w, version)
             probe == <<Call("python_package_version_exists", version, index_url, "-", IF f.pv THEN "true" ELSE "false", <<>>)>>
             a == learn_using_solver(f.pv, version, index_url, m.solver, f.solved, AllSolversReply(w), NamesReply, FailedSolvers(w))
             b == learn_using_revsolver(f.pv, version, seen, Reply(w, "schedule_revsolver"))
             c == learn_about_security(f.pv, version, index_url, f.si, Reply(w, "schedule_security_indicator"))
         IN AloneVersions(m, w, index_url, Tail(todo), b.seen,
                          [calls |-> sofar.calls \o probe \o a.calls \o b.calls \o c.calls,
                           totals |-> <<sofar.totals[1] + a.count, sofar.totals[2] + b.count, sofar.totals[3] + c.count>>])

RECURSIVE AloneIndexes(_, _, _, _)
AloneIndexes(m, w, todo, sofar) ==
    IF todo = <<>>
    THEN sofar
    ELSE LET r == _check_package_version(m.package_version, Head(todo), w.published[Head(todo)])
         IN AloneIndexes(m, w, Tail(todo),
                         AloneVersions(m, w, Head(todo), r.versions, <<>>, [sofar EXCEPT !.calls = @ \o r.calls]))

Alone(m, w) ==
    AloneIndexes(m, w, select_indexes(w.registered, m.index_url),
                 [calls |-> <<Call("get_python_package_index_urls_all", "-", "-", "-", "ok", <<>>)>>, totals |-> <<0, 0, 0>>])

IsPrefix(s, t) == Len(s) <= Len(t) /\ \A k \in 1..Len(s) : s[k] = t[k]
Finished == {p \in DOMAIN invocation : invocation[p].pc = "done"}
\* What the invocations of ps have added to counter k so far.
RECURSIVE SumEmitted(_, _)
SumEmitted(ps, k) ==
    IF ps = {} THEN 0
    ELSE LET p == CHOOSE q \in ps : TRUE
         IN (IF Len(invocation[p].emitted) >= k THEN invocation[p].emitted[k] ELSE 0) + SumEmitted(ps \ {p}, k)

\* C20: with invocations running at once, their steps interleaved in any
\* way, against a graph whose facts do not change and a scheduler whose
\* answers depend on the call alone, every invocation makes the calls it
\* makes when it runs alone, in the same order, and emits the same three
\* totals, after its last call; the counters the invocations share hold
\* what they have emitted so far and nothing else.
C20_ConcurrentAsAlone ==
    /\ \A p \in DOMAIN invocation :
          LET alone == Alone(messages[p], world)
              l == invocation[p]
          IN /\ IsPrefix(l.calls, alone.calls)
             /\ IsPrefix(l.emitted, alone.totals)
             /\ l.emitted # <<>> => l.calls = alone.calls
             /\ l.pc = "done" => (l.calls = alone.calls /\ l.emitted = alone.totals)
    /\ \A k \in 1..3 : scheduled_workflows[k] = SumEmitted(DOMAIN invocation, k)
    /\ unresolved_package_success = Cardinality(Finished)

\* C20 witness: the first invocation stands between its first and its
\* second scheduled_workflows statement; meanwhile the second invocation
\* has run from entry to return, so the solver counter holds the amounts
\* of both and the other counters those of the second alone; both called
\* schedule_revsolver for the same pair.
C20_Witness ==
    /\ DOMAIN invocation = Procs
    /\ invocation[1].pc = "emit_revsolver" /\ Len(invocation[1].emitted) = 1
    /\ invocation[2].pc = "done"
    /\ \E k \in Calls(invocation[1].calls, "schedule_revsolver") : \E m \in Calls(invocation[2].calls, "schedule_revsolver") :
          invocation[1].calls[k].ver = invocation[2].calls[m].ver /\ invocation[1].calls[k].res = "ok"
    /\ invocation[1].emitted[1] >= 2 /\ invocation[2].emitted[2] >= 1
    /\ scheduled_workflows = <<invocation[1].emitted[1] + invocation[2].emitted[1], invocation[2].emitted[2], invocation[2].emitted[3]>>
    /\ unresolved_package_success = 1

====
